---------------------------- MODULE Spec2Model ----------------------------
(***************************************************************************)
(* A model of remora/io.py: conversion of raw DOLPHOT photometry into      *)
(* named tables.  Column names are resolved from the ".columns" file       *)
(* (read_colfile), selected (select_cols), sky coordinates are attached    *)
(* (add_wcs) and the three photsec catalogs are merged along X             *)
(* (merge_parallel_phot).  The command line run chains these steps.        *)
(*                                                                         *)
(* Text is modelled character by character: a description is a string,    *)
(* and the pandas string operations are computed on its characters.       *)
(* pandas is modelled as of the versions the module was written for        *)
(* (Series.str.replace treats its pattern as a regular expression).        *)
(***************************************************************************)
EXTENDS Integers, Sequences, FiniteSets, TLC

(***************************************************************************)
(* Text helpers (what re / pandas.Series.str do on one string).            *)
(***************************************************************************)

\* A missing value of a pandas object Series.
NaN == "<NaN>"

Min(a, b) == IF a <= b THEN a ELSE b

Max(a, b) == IF a >= b THEN a ELSE b

CharAt(s, i) == SubSeq(s, i, i)

\* Does the literal p occur in s at position i ?
MatchAt(s, i, p) ==
    /\ i + Len(p) - 1 <= Len(s)
    /\ SubSeq(s, i, i + Len(p) - 1) = p

\* The first position >= i at which the literal p occurs in s, or 0.
RECURSIVE Find(_, _, _)
Find(s, p, i) ==
    IF i + Len(p) - 1 > Len(s) THEN 0
    ELSE IF MatchAt(s, i, p) THEN i
    ELSE Find(s, p, i + 1)

\* str.contains(re.escape(p))
Contains(s, p) == Find(s, p, 1) # 0

\* str.split(re.escape(sep)): the segments of s between occurrences of sep.
RECURSIVE Split(_, _)
Split(s, sep) ==
    LET k == Find(s, sep, 1)
    IN  IF k = 0 THEN <<s>>
        ELSE <<SubSeq(s, 1, k - 1)>>
             \o Split(SubSeq(s, k + Len(sep), Len(s)), sep)

\* The first alternative of alts (in order) that occurs in s at i, or "".
RECURSIVE FirstAlt(_, _, _, _)
FirstAlt(s, i, alts, k) ==
    IF k > Len(alts) THEN ""
    ELSE IF MatchAt(s, i, alts[k]) THEN alts[k]
    ELSE FirstAlt(s, i, alts, k + 1)

\* re.sub of the alternation alts[1]|alts[2]|... by rep, scanning s from i:
\* leftmost matches, non-overlapping, replacements not rescanned.
RECURSIVE ReSubFrom(_, _, _, _)
ReSubFrom(s, i, alts, rep) ==
    IF i > Len(s) THEN ""
    ELSE LET m == FirstAlt(s, i, alts, 1)
         IN  IF m # "" THEN rep \o ReSubFrom(s, i + Len(m), alts, rep)
             ELSE CharAt(s, i) \o ReSubFrom(s, i + 1, alts, rep)

ReSub(s, alts, rep) == IF s = NaN THEN NaN ELSE ReSubFrom(s, 1, alts, rep)

IsSpace(c) == c = " "

\* str.strip()
RECURSIVE LStrip(_)
LStrip(s) ==
    IF Len(s) > 0 /\ IsSpace(CharAt(s, 1)) THEN LStrip(SubSeq(s, 2, Len(s)))
    ELSE s

RECURSIVE RStrip(_)
RStrip(s) ==
    IF Len(s) > 0 /\ IsSpace(CharAt(s, Len(s)))
    THEN RStrip(SubSeq(s, 1, Len(s) - 1))
    ELSE s

Strip(s) == RStrip(LStrip(s))

\* The length of the run of non-blank characters of s that starts at i.
RECURSIVE TokenLen(_, _)
TokenLen(s, i) ==
    IF i > Len(s) \/ IsSpace(CharAt(s, i)) THEN 0
    ELSE 1 + TokenLen(s, i + 1)

\* str.split().str[0]: the first whitespace-delimited token, NaN if none.
FirstToken(s) ==
    LET t == LStrip(s)
    IN  IF s = NaN \/ Len(t) = 0 THEN NaN ELSE SubSeq(t, 1, TokenLen(t, 1))

LowerCase == "abcdefghijklmnopqrstuvwxyz"

UpperCase == "ABCDEFGHIJKLMNOPQRSTUVWXYZ"

Digits == "0123456789"

UpperChar(c) ==
    LET k == Find(LowerCase, c, 1)
    IN  IF k = 0 THEN c ELSE CharAt(UpperCase, k)

\* str.upper()
RECURSIVE UpperFrom(_, _)
UpperFrom(s, i) ==
    IF i > Len(s) THEN "" ELSE UpperChar(CharAt(s, i)) \o UpperFrom(s, i + 1)

Upper(s) == IF s = NaN THEN NaN ELSE UpperFrom(s, 1)

IsDigit(c) == Len(c) = 1 /\ Contains(Digits, c)

RECURSIVE AllDigits(_, _)
AllDigits(s, i) ==
    IF i > Len(s) THEN TRUE ELSE IsDigit(CharAt(s, i)) /\ AllDigits(s, i + 1)

\* Does the text read as an integer ?
IsNumeric(s) == Len(s) > 0 /\ AllDigits(s, 1)

RECURSIVE ParseInt(_, _)
ParseInt(s, n) ==
    IF n = 0 THEN 0
    ELSE 10 * ParseInt(s, n - 1) + (Find(Digits, CharAt(s, n), 1) - 1)

RECURSIVE FormatInt(_)
FormatInt(n) ==
    IF n < 10 THEN CharAt(Digits, n + 1)
    ELSE FormatInt(n \div 10) \o CharAt(Digits, (n % 10) + 1)


(***************************************************************************)
(* Column names: read_colfile.                                             *)
(***************************************************************************)

\* Mappings of DOLPHOT column descriptions to column names.  A pattern is
\* the list of the literal alternatives of its regular expression.
replace_single == <<
    [pat |-> <<"Total counts", "Measured counts">>,       rep |-> "COUNT"],
    [pat |-> <<"Total sky level", "Measured sky level">>, rep |-> "SKY"],
    [pat |-> <<"Normalized count rate uncertainty">>,     rep |-> "RATERR"],
    [pat |-> <<"Normalized count rate">>,                 rep |-> "RATE"],
    [pat |-> <<"Instrumental VEGAMAG magnitude">>,        rep |-> "VEGA"],
    [pat |-> <<"Transformed UBVRI magnitude">>,           rep |-> "TRANS"],
    [pat |-> <<"Magnitude uncertainty">>,                 rep |-> "ERR"],
    [pat |-> <<"Photometry quality flag">>,               rep |-> "FLAG"] >>

replace_global == <<
    [pat |-> <<"Signal-to-noise">>, rep |-> "SNR"],
    [pat |-> <<"ness", "ing">>,     rep |-> ""] >>

\* for k, v in rules.items(): s = s.replace(re.compile(k), v)
\* applied to one element, rules k..Len(rules) in order.
RECURSIVE ApplyRulesFrom(_, _, _)
ApplyRulesFrom(s, rules, k) ==
    IF k > Len(rules) THEN s
    ELSE ApplyRulesFrom(ReSub(s, rules[k].pat, rules[k].rep), rules, k + 1)

ApplySingleRules(s) == ApplyRulesFrom(s, replace_single, 1)

ApplyGlobalRules(s) == ApplyRulesFrom(s, replace_global, 1)

\* Series.reindex_like(like): the rows of S in the order of like's index.
ReindexLike(S, like) ==
    [k \in 1..Len(like) |->
        LET j == CHOOSE j \in 1..Len(S) : S[j].idx = like[k].idx IN S[j]]

\* pd.read_csv(colfile, sep='\. ', names=['desc'], index_col=0): one row per
\* line, the text before the first ". " as index, the text after it as
\* description (missing when the line has no ". ").  The index is numeric
\* when every index field reads as an integer, and text otherwise.
IndexDtype(colfile) ==
    IF \A k \in 1..Len(colfile) : IsNumeric(Split(colfile[k], ". ")[1])
    THEN "int64" ELSE "object"

read_csv(colfile) ==
    LET fields == [k \in 1..Len(colfile) |-> Split(colfile[k], ". ")]
        numeric == IndexDtype(colfile) = "int64"
    IN  [k \in 1..Len(colfile) |->
            [idx  |-> IF numeric THEN ParseInt(fields[k][1], Len(fields[k][1]))
                      ELSE fields[k][1],
             desc |-> IF Len(fields[k]) >= 2 THEN fields[k][2] ELSE NaN]]

\* "single" or "global": a ', ' before the first ' ('
is_single(desc) == Contains(Split(desc, " (")[1], ", ")

\* get rid of 'Object' and select first word
GlobalName(desc) == FirstToken(Strip(ReSub(desc, <<"Object">>, "")))

\* single_split.str[1].str.split().str[0].str.replace('\.chip', '_chip')
SinglePrefix(segs) ==
    IF Len(segs) < 2 THEN NaN
    ELSE ReSub(FirstToken(segs[2]), <<".chip">>, "_chip")

\* str.replace('^_', '') left out: the joined name is kept as it is.
KeepLeadingUnderscore(s) == s

\* str.replace('^_', ''): one leading underscore is removed.
StripLeadingUnderscore(s) ==
    IF s # NaN /\ MatchAt(s, 1, "_") THEN SubSeq(s, 2, Len(s)) ELSE s

\* prefix.str.cat(name, sep='_'): missing when either side is missing.
StrCat(a, b, sep) == IF a = NaN \/ b = NaN THEN NaN ELSE a \o sep \o b

\* read_colfile: the table of column descriptions and their names, as
\* [err, dtype, rows]; rows is a sequence of [idx, desc, names] and dtype
\* the type of the index.  A missing
\* description makes the boolean mask is_single hold a NaN, and indexing
\* with it raises.
read_colfile(colfile) ==
    LET \* A Series is a sequence of [idx, val] in row order.
        SeriesMap(S, F(_)) ==
            [k \in 1..Len(S) |-> [idx |-> S[k].idx, val |-> F(S[k].val)]]
        df_col == read_csv(colfile)
        N == Len(df_col)
        descs == [k \in 1..N |-> [idx |-> df_col[k].idx, val |-> df_col[k].desc]]
        IsS(r) == is_single(r.val)
        IsG(r) == ~is_single(r.val)
        df_single == SelectSeq(descs, IsS)
        df_global == SelectSeq(descs, IsG)
        names_global == SeriesMap(df_global, GlobalName)
        SplitComma(d) == Split(d, ", ")
        single_split == SeriesMap(df_single, SplitComma)
        First(segs) == segs[1]
        names_single == SeriesMap(SeriesMap(single_split, First), ApplySingleRules)
        names_concat == SeriesMap(ReindexLike(names_global \o names_single, df_col),
                                  ApplyGlobalRules)
        Empty(d) == ""
        prefix_global == SeriesMap(names_global, Empty)
        prefix_single == SeriesMap(single_split, SinglePrefix)
        prefix_concat == ReindexLike(prefix_global \o prefix_single, df_col)
        names == [k \in 1..N |->
                    StripLeadingUnderscore(
                        StrCat(prefix_concat[k].val, Upper(names_concat[k].val), "_"))]
    IN  IF \E k \in 1..N : df_col[k].desc = NaN
        THEN [err |-> "Error", dtype |-> IndexDtype(colfile), rows |-> <<>>]
        ELSE [err |-> "none", dtype |-> IndexDtype(colfile),
              rows |-> [k \in 1..N |-> [idx   |-> df_col[k].idx,
                                        desc  |-> df_col[k].desc,
                                        names |-> names[k]]]]

(***************************************************************************)
(* Column selection: select_cols.                                          *)
(***************************************************************************)

InClass(c, class) == Len(c) = 1 /\ Contains(class, c)

\* The number of digits at the start of s from position i, at most 5.
RECURSIVE DigitRun(_, _, _)
DigitRun(s, i, n) ==
    IF n < 5 /\ i <= Len(s) /\ IsDigit(CharAt(s, i)) THEN DigitRun(s, i + 1, n + 1)
    ELSE n

\* re.match('(^[X,Y]$)|(^[F,G]Q?[0-9]{2,5}[W,M,N,X,L]P?_)', s).  The character
\* classes that follow each optional or repeated item exclude it, so the
\* greedy choice is the only one that can match.
MatchDefault(s) ==
    \/ Len(s) = 1 /\ InClass(s, "X,Y")
    \/ /\ Len(s) >= 1 /\ InClass(CharAt(s, 1), "F,G")
       /\ LET a == IF MatchAt(s, 2, "Q") THEN 3 ELSE 2
              n == DigitRun(s, a, 0)
              b == a + n
              c == IF MatchAt(s, b + 1, "P") THEN b + 2 ELSE b + 1
          IN  /\ n >= 2
              /\ b <= Len(s) /\ InClass(CharAt(s, b), "W,M,N,X,L")
              /\ MatchAt(s, c, "_")

\* A selection pattern: the default one, or '^' followed by a literal text.
DefaultRegex == [kind |-> "default", text |-> ""]

StrMatch(s, regex) ==
    IF regex.kind = "default" THEN MatchDefault(s) ELSE MatchAt(s, 1, regex.text)

\* usecols holding the indices themselves, not index - 1.
OffsetSame(i) == i

\* cols.index - 1
Offset(i) == i - 1

\* select_cols: [err, names, usecols].  On a text index "cols.index - 1"
\* raises as soon as one row is selected.
select_cols(df_col, regex) ==
    LET M(r) == StrMatch(r.names, regex)
        cols == SelectSeq(df_col.rows, M)
    IN  IF df_col.dtype # "int64" /\ Len(cols) > 0
        THEN [err |-> "TypeError", names |-> <<>>, usecols |-> <<>>]
        ELSE [err |-> "none",
              names |-> [k \in 1..Len(cols) |-> cols[k].names],
              usecols |-> [k \in 1..Len(cols) |-> Offset(cols[k].idx)]]

(***************************************************************************)
(* Tables, sky coordinates (add_wcs) and the merge (merge_parallel_phot).  *)
(* A table is [cols, rows]: the column names in order, and the rows in     *)
(* order, each a function from the column names to values.                 *)
(***************************************************************************)

Range(f) == {f[k] : k \in DOMAIN f}

\* ds.drop(name, inplace=True, check=False)
Drop(ds, name) ==
    [cols |-> SelectSeq(ds.cols, LAMBDA c : c # name),
     rows |-> [k \in 1..Len(ds.rows) |->
                 [c \in (DOMAIN ds.rows[k]) \ {name} |-> ds.rows[k][c]]]]

\* ds.add_column(name, vals): a new last column.
AddColumn(ds, name, vals) ==
    [cols |-> Append(ds.cols, name),
     rows |-> [k \in 1..Len(ds.rows) |->
                 [c \in (DOMAIN ds.rows[k]) \cup {name} |->
                     IF c = name THEN vals[k] ELSE ds.rows[k][c]]]]

\* ds[names]: the columns names, in that order.
Project(ds, names) ==
    [cols |-> names,
     rows |-> [k \in 1..Len(ds.rows) |-> [c \in Range(names) |-> ds.rows[k][c]]]]

\* conv_pix_wcs(x, y, wcsfile, origin=1): the header's transform (astropy's
\* all_pix2world) of one pixel position.  The transform is represented by a
\* linear one: pixel (origin, origin) is at (crval1, crval2), one unit of
\* sky per pixel.
conv_pix_wcs(x, y, wcsfile) ==
    LET origin == 1
    IN  [ra |-> wcsfile.crval1 + (x - origin), dec |-> wcsfile.crval2 + (y - origin)]

\* The first columns with the pixel position before the sky position.
firstcols_xy == <<"X", "Y", "RA", "DEC">>

firstcols == <<"RA", "DEC", "X", "Y">>

\* The state of ds after add_wcs changed it in place: RA and DEC dropped if
\* present, then added as the last columns.
add_wcs_inplace(ds, wcsfile) ==
    LET d1 == IF "RA" \in Range(ds.cols) THEN Drop(ds, "RA") ELSE ds
        d2 == IF "DEC" \in Range(d1.cols) THEN Drop(d1, "DEC") ELSE d1
        sky == [k \in 1..Len(d2.rows) |->
                  conv_pix_wcs(d2.rows[k]["X"], d2.rows[k]["Y"], wcsfile)]
        d3 == AddColumn(d2, "RA", [k \in 1..Len(sky) |-> sky[k].ra])
    IN  AddColumn(d3, "DEC", [k \in 1..Len(sky) |-> sky[k].dec])

\* add_wcs: the table returned, firstcols and then the other columns.
add_wcs(ds, wcsfile) ==
    LET d == add_wcs_inplace(ds, wcsfile)
        names == firstcols \o SelectSeq(d.cols, LAMBDA n : n \notin Range(firstcols))
    IN  Project(d, names)

\* ds.X.min(), ds.X.max()
XMin(ds) ==
    CHOOSE m \in {r["X"] : r \in Range(ds.rows)} :
        \A r \in Range(ds.rows) : m <= r["X"]

XMax(ds) ==
    CHOOSE m \in {r["X"] : r \in Range(ds.rows)} :
        \A r \in Range(ds.rows) : m >= r["X"]

\* int(round(s / 2)): Python rounds a half to the even neighbour.
RoundHalf(s) ==
    LET q == s \div 2
    IN  IF s % 2 = 0 \/ q % 2 = 0 THEN q ELSE q + 1

\* The center taken between the two left edges, not between the overlap.
calc_xmed_min(ds_left, ds_right) == RoundHalf(XMin(ds_right) + XMin(ds_left))

\* get center pixel for overlapping photometry
calc_xmed(ds_left, ds_right) == RoundHalf(XMin(ds_right) + XMax(ds_left))

\* The rows k..Len(rows) of rows whose entry in mask is TRUE, in order.
RECURSIVE Masked(_, _, _)
Masked(rows, mask, k) ==
    IF k > Len(rows) THEN <<>>
    ELSE (IF mask[k] THEN <<rows[k]>> ELSE <<>>) \o Masked(rows, mask, k + 1)

\* ds.extract() with the selection mask named '__filter__': the rows that
\* pass, in their order.
Extract(ds, mask) == [cols |-> ds.cols, rows |-> Masked(ds.rows, mask, 1)]

\* ds.select(f'X <= {x}', name='__filter__')
select_le(ds, x) == [k \in 1..Len(ds.rows) |-> ds.rows[k]["X"] <= x]

\* ds.select(f'X >= {x}', name='__filter__')
select_ge(ds, x) == [k \in 1..Len(ds.rows) |-> ds.rows[k]["X"] >= x]

\* A box selection that keeps everything from the lower limit on.
select_box_open(ds, limits) ==
    [k \in 1..Len(ds.rows) |-> ds.rows[k]["X"] >= limits[1]]

\* ds.select_box(['X'], [limits], name='__filter__'): vaex sorts the two
\* limits and selects the closed interval between them.
select_box(ds, limits) ==
    LET lmin == Min(limits[1], limits[2])
        lmax == Max(limits[1], limits[2])
    IN  [k \in 1..Len(ds.rows) |-> ds.rows[k]["X"] >= lmin /\ ds.rows[k]["X"] <= lmax]

\* DataFrameConcatenated: the rows of the tables one after the other.
Concatenated(dss) ==
    [cols |-> dss[1].cols, rows |-> dss[1].rows \o dss[2].rows \o dss[3].rows]

\* merge_parallel_phot: x0 and x1, the three extracts, their concatenation
\* (cat) and the table with the coordinates attached (out).
merge_parallel_phot(t1, t2, t3, wcsfile) ==
    LET x0 == calc_xmed(t1, t2)
        x1 == calc_xmed(t2, t3)
        e1 == Extract(t1, select_le(t1, x0))
        e2 == Extract(t2, select_box(t2, <<x0, x1>>))
        e3 == Extract(t3, select_ge(t3, x1))
        cat == Concatenated(<<e1, e2, e3>>)
    IN  [x0 |-> x0, x1 |-> x1, ext |-> <<e1, e2, e3>>, cat |-> cat,
         out |-> add_wcs(cat, wcsfile)]

(***************************************************************************)
(* State.                                                                  *)
(***************************************************************************)
VARIABLES
    colfile,     \* the lines of the .columns file
    cpc,         \* column resolution: "start", "resolved", "selected", "failed"
    df_col,      \* what read_colfile returned
    regex,       \* the pattern given to select_cols
    selection,   \* what select_cols returned
    wcs,         \* the WCS header read from <base>_F475W_drc_wcs.txt
    tbl0,        \* a table as it was handed to add_wcs
    tbl,         \* that table, which add_wcs changes in place
    tbl_out,     \* what add_wcs returned
    wpc,         \* add_wcs: "loaded", "augmented", "again"
    ds1,         \* the three photsec catalogs of a field
    ds2,
    ds3,
    export,      \* merge_parallel_phot's export argument
    merged,      \* what merge_parallel_phot computed
    mpc,         \* the merge: "open", "written", "returned"
    pc,          \* the command line run: the step to execute next
    part,        \* its loop variable i
    phot,        \* the photsecs whose raw <base>_<i>.phot exists
    gz,          \* the photsecs whose <base>_<i>.phot.gz exists
    gzip_rc,     \* what os.system('gzip ...') returned
    hdf,         \* each output path: "absent", "partial" or "complete"
    stdout,      \* the messages printed
    steps        \* the steps executed so far, each with its outcome

colvars == <<colfile, cpc, df_col, regex, selection>>

wcsvars == <<tbl0, tbl, tbl_out, wpc>>

mergevars == <<ds1, ds2, ds3, export, merged, mpc>>

clivars == <<pc, part, phot, gz, gzip_rc, hdf, stdout, steps>>

vars == <<colvars, wcs, wcsvars, mergevars, clivars>>

(***************************************************************************)
(* The column files considered.                                            *)
(***************************************************************************)

\* The most lines of a column file.
MaxLines == 2

Phrases == {"Measured counts", "Normalized count rate uncertainty",
            "Signal-to-noise", "Object sharpness", "Object X"}

Suffixes == {"", ", F475W.chip1", ", .chip2 (WFC3_F475W, 350.0 sec)",
             " (1=bright star, 2=faint)"}

Descriptions == {p \o s : p \in Phrases, s \in Suffixes}

\* What a line may hold: a description, well formed, or "Object X" with an
\* index that is no number, or without the ". " separator.
LineKinds == Descriptions \cup {"<bad index>", "<no separator>"}

Line(i, kind) ==
    CASE kind = "<bad index>"    -> "abc. Object X"
      [] kind = "<no separator>" -> FormatInt(i) \o " Object X"
      [] OTHER                   -> FormatInt(i) \o ". " \o kind

Regexes == {DefaultRegex,
            [kind |-> "literal", text |-> ""],
            [kind |-> "literal", text |-> "F475W"]}

(***************************************************************************)
(* The tables considered.                                                  *)
(***************************************************************************)

\* The most rows of a table handed to add_wcs.
MaxWcsRows == 1

\* The most rows of the three catalogs of a merge, together.
MaxMergeRows == 4

\* The largest pixel position X of a catalog of a merge.
MaxX == 3

PixelValues == {0, 1}

WcsHeaders == {[crval1 |-> 50, crval2 |-> 70], [crval1 |-> 60, crval2 |-> 80]}

NoTable == [cols |-> <<>>, rows |-> <<>>]

NoMerge == [x0 |-> 0, x1 |-> 0, ext |-> <<>>, cat |-> NoTable, out |-> NoTable]

\* The columns a table may have besides X and Y.
OtherColumns == {"RA", "DEC", "F475W_VEGA", "F814W_VEGA"}

\* The value of a column other than X and Y in row k: one the transform
\* cannot produce, and no two columns the same.
CellValue(c, k) ==
    CASE c = "RA"         -> 100 + k
      [] c = "DEC"        -> 200 + k
      [] c = "F475W_VEGA" -> 300 + k
      [] OTHER            -> 400 + k

\* The orders in which the columns S can stand in a table.
Orders(S) ==
    {f \in [1..Cardinality(S) -> S] : \A a, b \in 1..Cardinality(S) : f[a] = f[b] => a = b}

WcsIdle ==
    /\ wcs \in {[crval1 |-> 50, crval2 |-> 70]}
    /\ tbl0 = NoTable
    /\ tbl = NoTable
    /\ tbl_out = NoTable
    /\ wpc = "idle"

MergeIdle ==
    /\ ds1 = NoTable
    /\ ds2 = NoTable
    /\ ds3 = NoTable
    /\ export = FALSE
    /\ merged = NoMerge
    /\ mpc = "idle"

\* for i in range(1, 4)
Photsecs == 1..3

\* The output <base>/<base><o>.phot.hdf5 of photsec i, and the merged one.
OutputOf(p) == "_" \o FormatInt(p)

MergedOutput == ""

Outputs == {OutputOf(p) : p \in Photsecs} \cup {MergedOutput}

CliIdle ==
    /\ pc = "idle"
    /\ part = 0
    /\ phot = {}
    /\ gz = {}
    /\ gzip_rc = 0
    /\ hdf = [o \in Outputs |-> "absent"]
    /\ stdout = <<>>
    /\ steps = <<>>

NoFrame == [err |-> "unset", dtype |-> "int64", rows |-> <<>>]

NoSelection == [err |-> "unset", names |-> <<>>, usecols |-> <<>>]

ColIdle ==
    /\ colfile = <<>>
    /\ cpc = "idle"
    /\ df_col = NoFrame
    /\ regex = DefaultRegex
    /\ selection = NoSelection

\* A column file of 1..MaxLines lines, numbered from 1 as DOLPHOT writes it.
ColInit ==
    /\ \E n \in 1..MaxLines :
          \E c \in [1..n -> LineKinds] :
             colfile = [k \in 1..n |-> Line(k, c[k])]
    /\ cpc = "start"
    /\ df_col = NoFrame
    /\ regex = DefaultRegex
    /\ selection = NoSelection

\* df_col = read_colfile(colfile)
ReadColfile ==
    /\ cpc = "start"
    /\ df_col' = read_colfile(colfile)
    /\ cpc' = IF df_col'.err = "none" THEN "resolved" ELSE "failed"
    /\ UNCHANGED <<colfile, regex, selection, wcs, wcsvars, mergevars, clivars>>

\* names, usecols = select_cols(df_col, regex)
SelectCols ==
    /\ cpc = "resolved"
    /\ \E r \in Regexes :
          /\ regex' = r
          /\ selection' = select_cols(df_col, r)
    /\ cpc' = IF selection'.err = "none" THEN "selected" ELSE "failed"
    /\ UNCHANGED <<colfile, df_col, wcs, wcsvars, mergevars, clivars>>

ColNext == ReadColfile \/ SelectCols

InitCol == ColInit /\ WcsIdle /\ MergeIdle /\ CliIdle

SpecCol == InitCol /\ [][ColNext]_vars

\* A table with X and Y and any of the other columns, in any order.
WcsInit ==
    /\ wcs \in WcsHeaders
    /\ \E S \in SUBSET OtherColumns, n \in 1..MaxWcsRows :
          \E cols \in Orders(S \cup {"X", "Y"}), xy \in [1..n -> PixelValues \X PixelValues] :
             tbl0 = [cols |-> cols,
                    rows |-> [k \in 1..n |->
                                [c \in S \cup {"X", "Y"} |->
                                    CASE c = "X" -> xy[k][1]
                                      [] c = "Y" -> xy[k][2]
                                      [] OTHER   -> CellValue(c, k)]]]
    /\ tbl = tbl0
    /\ tbl_out = NoTable
    /\ wpc = "loaded"

\* tbl_out = add_wcs(tbl, base); tbl itself is changed in place.
AddWcs ==
    /\ wpc = "loaded"
    /\ tbl_out' = add_wcs(tbl, wcs)
    /\ tbl' = add_wcs_inplace(tbl, wcs)
    /\ wpc' = "augmented"
    /\ UNCHANGED <<colvars, wcs, tbl0, mergevars, clivars>>

\* add_wcs on the table it returned, which has RA and DEC already.
AddWcsAgain ==
    /\ wpc = "augmented"
    /\ tbl_out' = add_wcs(tbl_out, wcs)
    /\ wpc' = "again"
    /\ UNCHANGED <<colvars, wcs, tbl0, tbl, mergevars, clivars>>

WcsNext == AddWcs \/ AddWcsAgain

InitWcs == ColIdle /\ WcsInit /\ MergeIdle /\ CliIdle

SpecWcs == InitWcs /\ [][WcsNext]_vars

\* The catalog of photsec i: columns X and Y, n rows with the pixel
\* positions xs; Y tells the photsec the row was measured in.
Catalog(i, n, xs) ==
    [cols |-> <<"X", "Y">>,
     rows |-> [k \in 1..n |-> [c \in {"X", "Y"} |-> IF c = "X" THEN xs[k] ELSE i]]]

\* Three catalogs, none empty, of at most MaxMergeRows rows together.
MergeInit ==
    /\ wcs \in {[crval1 |-> 50, crval2 |-> 70]}
    /\ \E n1 \in 1..(MaxMergeRows - 2) :
          \E n2 \in 1..(MaxMergeRows - 1 - n1) :
             \E n3 \in 1..(MaxMergeRows - n1 - n2) :
                \E a \in [1..n1 -> 0..MaxX], b \in [1..n2 -> 0..MaxX], c \in [1..n3 -> 0..MaxX] :
                   /\ ds1 = Catalog(1, n1, a)
                   /\ ds2 = Catalog(2, n2, b)
                   /\ ds3 = Catalog(3, n3, c)
    /\ export \in BOOLEAN
    /\ merged = NoMerge
    /\ mpc = "open"

\* merge_parallel_phot(name, export)
Merge ==
    /\ mpc = "open"
    /\ merged' = merge_parallel_phot(ds1, ds2, ds3, wcs)
    /\ mpc' = IF export THEN "written" ELSE "returned"
    /\ UNCHANGED <<colvars, wcs, wcsvars, ds1, ds2, ds3, export, clivars>>

MergeNext == Merge

InitMerge == ColIdle /\ WcsIdle /\ MergeInit /\ CliIdle

SpecMerge == InitMerge /\ [][MergeNext]_vars

(***************************************************************************)
(* The command line run (__main__) for one field.  Whether a step raises   *)
(* depends on the files of the field, which the run does not control: each *)
(* step either succeeds or raises.  An exception is caught nowhere, so it  *)
(* ends the run with a traceback and a nonzero exit status.                *)
(***************************************************************************)

\* Raw and compressed photometry as found, outputs of an earlier run or none.
CliInit ==
    /\ pc = "gzip"
    /\ part = 0
    /\ phot \in SUBSET Photsecs
    /\ gz \in SUBSET Photsecs
    /\ gzip_rc = 0
    /\ hdf \in [Outputs -> {"absent", "complete"}]
    /\ stdout = <<>>
    /\ steps = <<>>

Step(name, ok) == [name |-> name, part |-> part, ok |-> ok]

\* An exception leaves the step: nothing catches it.
Raise(name) ==
    /\ pc' = "failed"
    /\ steps' = Append(steps, Step(name, FALSE))

\* os.system(f'gzip {base}/*.phot'): gzip compresses the raw files it finds
\* and does not overwrite a .gz that exists; its exit status is returned and
\* dropped, and the run goes on to the loop.
Gzip ==
    /\ pc = "gzip"
    /\ \E works \in BOOLEAN :
          LET done == IF works THEN phot \ gz ELSE {}
              rc == IF works /\ phot # {} /\ done = phot THEN 0 ELSE 1
          IN  /\ gz' = gz \cup done
              /\ phot' = phot \ done
              /\ gzip_rc' = rc
              /\ steps' = Append(steps, Step("gzip", rc = 0))
    /\ part' = 1
    /\ pc' = "read_colfile"
    /\ UNCHANGED <<hdf, stdout, colvars, wcs, wcsvars, mergevars>>

\* df_col = read_colfile(colfile)
CliReadColfile ==
    /\ pc = "read_colfile"
    /\ \/ /\ pc' = "select_cols"
          /\ steps' = Append(steps, Step("read_colfile", TRUE))
       \/ Raise("read_colfile")
    /\ UNCHANGED <<part, phot, gz, gzip_rc, hdf, stdout, colvars, wcs, wcsvars, mergevars>>

\* names, usecols = select_cols(df_col)
CliSelectCols ==
    /\ pc = "select_cols"
    /\ \/ /\ pc' = "ascii_to_vaex"
          /\ steps' = Append(steps, Step("select_cols", TRUE))
       \/ Raise("select_cols")
    /\ UNCHANGED <<part, phot, gz, gzip_rc, hdf, stdout, colvars, wcs, wcsvars, mergevars>>

\* ascii_to_vaex(photfile + '.gz', ...): needs the compressed file.
CliAsciiToVaex ==
    /\ pc = "ascii_to_vaex"
    /\ \/ /\ part \in gz
          /\ pc' = "export_hdf5"
          /\ steps' = Append(steps, Step("ascii_to_vaex", TRUE))
       \/ Raise("ascii_to_vaex")
    /\ UNCHANGED <<part, phot, gz, gzip_rc, hdf, stdout, colvars, wcs, wcsvars, mergevars>>

\* .export_hdf5(hdffile) opens hdffile itself for writing ...
CliExportOpen ==
    /\ pc = "export_hdf5"
    /\ \/ /\ hdf' = [hdf EXCEPT ![OutputOf(part)] = "partial"]
          /\ pc' = "export_write"
          /\ UNCHANGED steps
       \/ Raise("export_hdf5") /\ UNCHANGED hdf
    /\ UNCHANGED <<part, phot, gz, gzip_rc, stdout, colvars, wcs, wcsvars, mergevars>>

\* ... and writes the columns into it; then print(f'Written {hdffile}') and
\* the loop goes on, or leaves for merge_parallel_phot(base).
CliExportWrite ==
    /\ pc = "export_write"
    /\ \/ /\ hdf' = [hdf EXCEPT ![OutputOf(part)] = "complete"]
          /\ stdout' = Append(stdout, "Written " \o OutputOf(part))
          /\ steps' = Append(steps, Step("export_hdf5", TRUE))
          /\ IF part + 1 \in Photsecs
             THEN part' = part + 1 /\ pc' = "read_colfile"
             ELSE part' = part /\ pc' = "merge"
       \/ Raise("export_hdf5") /\ UNCHANGED <<hdf, stdout, part>>
    /\ UNCHANGED <<phot, gz, gzip_rc, colvars, wcs, wcsvars, mergevars>>

\* merge_parallel_phot(base): the three vaex.open, the merge and add_wcs.
CliMerge ==
    /\ pc = "merge"
    /\ \/ /\ \A p \in Photsecs : hdf[OutputOf(p)] = "complete"
          /\ pc' = "merge_export"
          /\ steps' = Append(steps, Step("merge", TRUE))
       \/ Raise("merge")
    /\ UNCHANGED <<part, phot, gz, gzip_rc, hdf, stdout, colvars, wcs, wcsvars, mergevars>>

\* ds.export_hdf5(f'{name}/{name}.phot.hdf5') opens the merged file ...
CliMergeExportOpen ==
    /\ pc = "merge_export"
    /\ \/ /\ hdf' = [hdf EXCEPT ![MergedOutput] = "partial"]
          /\ pc' = "merge_write"
          /\ UNCHANGED steps
       \/ Raise("merge_export") /\ UNCHANGED hdf
    /\ UNCHANGED <<part, phot, gz, gzip_rc, stdout, colvars, wcs, wcsvars, mergevars>>

\* ... writes it, and print(f'Merged catalogs written to ...').
CliMergeExportWrite ==
    /\ pc = "merge_write"
    /\ \/ /\ hdf' = [hdf EXCEPT ![MergedOutput] = "complete"]
          /\ stdout' = Append(stdout, "Merged catalogs written")
          /\ steps' = Append(steps, Step("merge_export", TRUE))
          /\ pc' = "done"
       \/ Raise("merge_export") /\ UNCHANGED <<hdf, stdout>>
    /\ UNCHANGED <<part, phot, gz, gzip_rc, colvars, wcs, wcsvars, mergevars>>

Next ==
    \/ Gzip
    \/ CliReadColfile
    \/ CliSelectCols
    \/ CliAsciiToVaex
    \/ CliExportOpen
    \/ CliExportWrite
    \/ CliMerge
    \/ CliMergeExportOpen
    \/ CliMergeExportWrite

Init == ColIdle /\ WcsIdle /\ MergeIdle /\ CliInit

Spec == Init /\ [][Next]_vars

(***************************************************************************)
(* Properties.                                                             *)
(***************************************************************************)

MergeDone == mpc \in {"written", "returned"}

\* The pixel positions X of the rows of a table.
XsOf(ds) == {r["X"] : r \in Range(ds.rows)}

\* The X column of a table, row by row.
XColumn(ds) == [k \in 1..Len(ds.rows) |-> ds.rows[k]["X"]]

\* C1: in the merged table no X value is kept from two of the three
\* catalogs at once; in particular a row at X = x0 is not kept both from
\* table 1 and from table 2, nor one at X = x1 from table 2 and table 3.
C1_NoSharedX ==
    MergeDone =>
        \A a, b \in 1..3 :
            a < b => XsOf(merged.ext[a]) \cap XsOf(merged.ext[b]) = {}

\* C2 as stated: the merged rows are those of table 1 with X <= x0, then
\* those of table 2 with x0 <= X <= x1, then those of table 3 with X >= x1,
\* each group in its row order, x0 and x1 being the rounded centers.
C2_RowsClosedInterval ==
    MergeDone =>
        LET x0 == RoundHalf(XMin(ds2) + XMax(ds1))
            x1 == RoundHalf(XMin(ds3) + XMax(ds2))
        IN  merged.cat.rows =
                SelectSeq(ds1.rows, LAMBDA r : r["X"] <= x0)
                \o SelectSeq(ds2.rows, LAMBDA r : x0 <= r["X"] /\ r["X"] <= x1)
                \o SelectSeq(ds3.rows, LAMBDA r : r["X"] >= x1)

\* C2 amended: as above, but the rows of table 2 are those between the
\* smaller and the larger of x0 and x1 (the same rows whenever x0 <= x1);
\* x0 and x1 are integers, a half being rounded to the even neighbour.
C2_RowsSortedInterval ==
    MergeDone =>
        LET x0 == RoundHalf(XMin(ds2) + XMax(ds1))
            x1 == RoundHalf(XMin(ds3) + XMax(ds2))
            lo == IF x0 <= x1 THEN x0 ELSE x1
            hi == IF x0 <= x1 THEN x1 ELSE x0
        IN  /\ merged.x0 = x0 /\ merged.x1 = x1
            /\ x0 \in Int /\ x1 \in Int
            /\ 2 * x0 - (XMin(ds2) + XMax(ds1)) \in {-1, 0, 1}
            /\ 2 * x1 - (XMin(ds3) + XMax(ds2)) \in {-1, 0, 1}
            /\ merged.cat.rows =
                  SelectSeq(ds1.rows, LAMBDA r : r["X"] <= x0)
                  \o SelectSeq(ds2.rows, LAMBDA r : lo <= r["X"] /\ r["X"] <= hi)
                  \o SelectSeq(ds3.rows, LAMBDA r : r["X"] >= x1)

\* A merge with x0 above x1 in which two rows of table 2 were kept, the
\* larger X first, and a row of table 1 was dropped.
C2_Witness ==
    /\ MergeDone
    /\ merged.x0 > merged.x1
    /\ Len(merged.ext[2].rows) = 2
    /\ XColumn(merged.ext[2])[1] > XColumn(merged.ext[2])[2]
    /\ Len(merged.ext[1].rows) < Len(ds1.rows)

\* C10: when max X of table 1 <= max X of table 2 and min X of table 2 <=
\* min X of table 3, then x0 <= x1 and every X kept from table 1 is <= every
\* X kept from table 2, which is <= every X kept from table 3.
C10_OrderedAlongX ==
    (MergeDone /\ XMax(ds1) <= XMax(ds2) /\ XMin(ds2) <= XMin(ds3)) =>
        /\ merged.x0 <= merged.x1
        /\ \A a \in XsOf(merged.ext[1]), b \in XsOf(merged.ext[2]) : a <= b
        /\ \A b \in XsOf(merged.ext[2]), c \in XsOf(merged.ext[3]) : b <= c

\* A merge of catalogs ordered that way that kept rows of all three.
C10_Witness ==
    /\ MergeDone
    /\ XMax(ds1) <= XMax(ds2) /\ XMin(ds2) <= XMin(ds3)
    /\ merged.x0 < merged.x1
    /\ \A a \in 1..3 : Len(merged.ext[a].rows) >= 1
    /\ Len(merged.cat.rows) < Len(ds1.rows) + Len(ds2.rows) + Len(ds3.rows)

\* The text of line k of the column file after its first ". ".
LineDesc(k) == Split(colfile[k], ". ")[2]

\* C3: every SINGLE description gets the name prefix_SHORT: the prefix is
\* the first token of its second ", " segment with ".chip" written "_chip",
\* SHORT its first segment after the single rules and then the global rules,
\* applied in order, in upper case.
C3_SingleNames ==
    df_col.err = "none" =>
        \A k \in 1..Len(colfile) :
            is_single(LineDesc(k)) =>
                LET segs == Split(LineDesc(k), ", ")
                    prefix == ReSub(FirstToken(segs[2]), <<".chip">>, "_chip")
                    short == ApplyGlobalRules(ApplySingleRules(segs[1]))
                IN  df_col.rows[k].names = prefix \o "_" \o Upper(short)

\* C4: every GLOBAL description (no ", " before the first " (") gets as its
\* name the first token left after removing "Object" and trimming, through
\* the global rules and in upper case, with no prefix and no leading
\* underscore ("Object X" gives X); and every line of the file gets one name,
\* at the position of its own index.
C4_GlobalNames ==
    df_col.err = "none" =>
        /\ Len(df_col.rows) = Len(colfile)
        /\ \A k \in 1..Len(colfile) :
              /\ df_col.rows[k].idx =
                    IF df_col.dtype = "int64" THEN k ELSE Split(colfile[k], ". ")[1]
              /\ df_col.rows[k].desc = LineDesc(k)
              /\ ~Contains(Split(LineDesc(k), " (")[1], ", ") =>
                    df_col.rows[k].names =
                        Upper(ReSub(ReSub(
                            FirstToken(Strip(ReSub(LineDesc(k), <<"Object">>, ""))),
                            <<"Signal-to-noise">>, "SNR"), <<"ness", "ing">>, ""))
              /\ LineDesc(k) = "Object X" => df_col.rows[k].names = "X"

\* A file whose GLOBAL line follows a SINGLE one, resolved.
C4_Witness ==
    /\ cpc = "resolved"
    /\ colfile = <<"1. Measured counts, F475W.chip1", "2. Object X">>
    /\ df_col.rows[2].names = "X"

\* The positions of the rows of df whose name matches r, upwards.
RECURSIVE MatchingFrom(_, _, _)
MatchingFrom(df, r, k) ==
    IF k > Len(df.rows) THEN <<>>
    ELSE (IF StrMatch(df.rows[k].names, r) THEN <<k>> ELSE <<>>)
         \o MatchingFrom(df, r, k + 1)

\* C5: select_cols returns two lists of equal length: the names that match
\* the pattern, in file order, and at the same position the index minus 1
\* (strictly increasing when the indices are); with no match both are empty
\* and nothing is raised.
C5_SelectedColumns ==
    (cpc \in {"selected", "failed"} /\ df_col.err = "none" /\ df_col.dtype = "int64") =>
        LET at == MatchingFrom(df_col, regex, 1)
        IN  /\ cpc = "selected" /\ selection.err = "none"
            /\ Len(selection.names) = Len(at)
            /\ Len(selection.usecols) = Len(at)
            /\ \A j \in 1..Len(at) :
                  /\ selection.names[j] = df_col.rows[at[j]].names
                  /\ selection.usecols[j] = df_col.rows[at[j]].idx - 1
                  /\ selection.usecols[j] >= 0
            /\ \A j \in 1..(Len(at) - 1) :
                  df_col.rows[at[j]].idx < df_col.rows[at[j + 1]].idx
                      => selection.usecols[j] < selection.usecols[j + 1]

\* The default selection on a file whose second column only matches.
C5_Witness ==
    /\ cpc = "selected"
    /\ regex = DefaultRegex
    /\ colfile = <<"1. Object sharpness", "2. Object X">>
    /\ selection.names = <<"X">>
    /\ selection.usecols = <<1>>

\* A line with no ". " or with an index that is no number.
Malformed(line) ==
    LET f == Split(line, ". ")
    IN  Len(f) < 2 \/ ~IsNumeric(f[1])

\* C7: read_colfile fails on a file with a malformed line: it never returns
\* a name table in which that line was skipped or turned into an entry.
C7_MalformedRejected ==
    (cpc # "start" /\ \E k \in 1..Len(colfile) : Malformed(colfile[k]))
        => df_col.err # "none"

\* C6: add_wcs returns RA, DEC, X, Y as the first four columns, then every
\* other original column once, in its original relative order; an RA or DEC
\* that was there is replaced, not duplicated; the row count and the values
\* of all other columns are unchanged.  The same holds of the table that
\* add_wcs returns for its own result.
C6_ColumnsAfterAddWcs ==
    wpc \in {"augmented", "again"} =>
        LET rest == SelectSeq(tbl0.cols, LAMBDA c : c \notin {"RA", "DEC", "X", "Y"})
        IN  /\ tbl_out.cols = <<"RA", "DEC", "X", "Y">> \o rest
            /\ \A a, b \in 1..Len(tbl_out.cols) :
                  tbl_out.cols[a] = tbl_out.cols[b] => a = b
            /\ Len(tbl_out.rows) = Len(tbl0.rows)
            /\ \A k \in 1..Len(tbl0.rows) :
                  /\ DOMAIN tbl_out.rows[k] = Range(tbl_out.cols)
                  /\ \A c \in Range(tbl0.cols) \ {"RA", "DEC"} :
                        tbl_out.rows[k][c] = tbl0.rows[k][c]
                  /\ tbl_out.rows[k]["RA"] =
                        conv_pix_wcs(tbl0.rows[k]["X"], tbl0.rows[k]["Y"], wcs).ra
                  /\ tbl_out.rows[k]["DEC"] =
                        conv_pix_wcs(tbl0.rows[k]["X"], tbl0.rows[k]["Y"], wcs).dec

\* A table with RA and DEC among its columns, X last, augmented.
C6_Witness ==
    /\ wpc = "augmented"
    /\ tbl0.cols = <<"F814W_VEGA", "DEC", "Y", "F475W_VEGA", "RA", "X">>
    /\ tbl_out.cols = <<"RA", "DEC", "X", "Y", "F814W_VEGA", "F475W_VEGA">>

\* C8: when a step of the run fails, no later step is executed and the run
\* ends failed, without the message of the merge.
C8_FailureStopsRun ==
    /\ \A k \in 1..Len(steps) : ~steps[k].ok => k = Len(steps)
    /\ pc = "done" => \A k \in 1..Len(steps) : steps[k].ok
    /\ (\E m \in 1..Len(stdout) : stdout[m] = "Merged catalogs written")
          => \A k \in 1..Len(steps) : steps[k].ok

\* C9: at every point of the run each output path is absent or holds a
\* completely written table.
C9_NoPartialOutput ==
    \A o \in Outputs : hdf[o] \in {"absent", "complete"}

=============================================================================
